---- MODULE Spec2Model ----
(***************************************************************************)
(* FIRA query-resolution pipeline.                                         *)
(*                                                                         *)
(* One request flows through OrchestrationAgent.run_chain ->               *)
(* UserIntentAgent.route_and_execute -> SQLQueryAgent.run.  Every call to  *)
(* the completion service (AgentUtils.llm_call) and to the store           *)
(* (OpexDB.execute_sql_query) is a step whose outcome is chosen by the     *)
(* environment.                                                            *)
(*                                                                         *)
(* Text is modelled as follows: request texts, query texts, explanations   *)
(* and hints are strings ("" is the empty text); error texts are sequences *)
(* of character codes so that the slice last_error[:200] is computed.      *)
(* A Python dict whose keys may be missing is a record of optional values: *)
(* <<>> is a missing key, <<v>> a key holding v.  Confidences are in       *)
(* hundredths (0.5 is 50).                                                 *)
(***************************************************************************)
EXTENDS Integers, Sequences, FiniteSets, TLC

\* ------------------------------------------------------------------ bounds
\* largest retry_limit a direct caller of SQLQueryAgent.run passes
MaxRetryLimit == 3
\* how many characters the long error text has beyond the slice length
LongErrExtra == 2

\* largest keyword score and word count the keyword fallback is examined on
MaxScore == 3

MaxWords == 5

\* largest newline count and "0.00" count of the results the data-quality
\* checks are examined on
MaxNewlines == 4

MaxZeros == 5

\* largest max_retries llm_call is examined with (its default is 3)
MaxCallRetries == 4

\* ------------------------------------------------------- program constants
\* run(self, user_input, retry_limit: int = 3)
DefaultRetryLimit == 3
\* last_error[:200]
ErrTruncLen == 200
\* validation.get("confidence", 1.0) < 0.5  and  decision.confidence < 0.50
ConfidenceGate == 50
\* suggestions[:3] in _generate_followups
MaxFollowups == 3

\* --------------------------------------------------------- optional values
Absent == <<>>

Some(v) == <<v>>

\* dict.get(key, default) on a record of optional values
Get(d, k, default) == IF d[k] = Absent THEN default ELSE d[k][1]

Min(a, b) == IF a < b THEN a ELSE b

\* s[:n] on a sequence
Take(s, n) == SubSeq(s, 1, Min(Len(s), n))

\* t occurs in s as a contiguous run (Python's `t in s`)
Contains(s, t) ==
    \E i \in 0..(Len(s) - Len(t)) : SubSeq(s, i + 1, i + Len(t)) = t

\* ------------------------------------------------------------------- texts
UserInputs == {"total spend by project", "explain the variance policy", "hello"}

\* what the classifier may put in refined_query
RefinedQueries == {"sum(ods_mm) by project_desc"}

\* query texts the completion service may produce on generation / on repair
GeneratedSqls == {"SELECT a"}

RepairedSqls == {"", "SELECT b"}

Explanations == {"sums spend"}

\* error texts the store may raise: a short one and one longer than the slice
ShortErr == <<1, 1, 1>>

LongErr == [i \in 1..(ErrTruncLen + LongErrExtra) |-> IF i <= ErrTruncLen THEN 2 ELSE 3]

ErrorTexts == {ShortErr, LongErr}

\* What _check_data_quality measures on str(results): whether "None"/"null"
\* occurs, the number of newlines, the number of "0.00" occurrences, whether
\* "-" occurs, whether one of spend/budget/cost occurs.
ResultTables ==
    { [nulls |-> FALSE, newlines |-> 4, zeros |-> 0, minus |-> TRUE, fin_kw |-> FALSE],
      [nulls |-> TRUE, newlines |-> 2, zeros |-> 4, minus |-> TRUE, fin_kw |-> TRUE] }

\* ------------------------------------- replies of the completion service
\* What a caller of AgentUtils.llm_call observes:
\*   raise    the call raises (QGenieChat(...) is built outside llm_call's try)
\*   nonstr   result.content is not a str
\*   nojson   a text without the delimiters the caller searches for
\*   badjson  a text whose candidate JSON does not parse
\*   nondict  a text that parses to JSON that is not an object
\*   object   a text that parses to the JSON object obj
\*   text     free text (insight)
\*   list     a text holding the JSON list items (follow-ups)
Reply(k) == [kind |-> k, obj |-> Absent, text |-> "", items |-> <<>>]

ObjectReply(d) == [kind |-> "object", obj |-> Some(d), text |-> "", items |-> <<>>]

TextReply(t) == [kind |-> "text", obj |-> Absent, text |-> t, items |-> <<>>]

ListReply(l) == [kind |-> "list", obj |-> Absent, text |-> "", items |-> l]

\* llm_call's failure sentinel, the text "{}"
Sentinel == "{}"

\* llm_call caught the failure of model.invoke and returned the sentinel
SentinelReply == [kind |-> "sentinel", obj |-> Absent, text |-> Sentinel, items |-> <<>>]

\* how a reply is kept in the history: the call raised, it returned the
\* sentinel, it returned something the caller cannot parse, or it parsed
ReplyClass(reply) ==
    CASE reply.kind = "raise" -> "raise"
      [] reply.kind = "sentinel" -> "sentinel"
      [] reply.kind \in {"nonstr", "nojson", "badjson", "nondict"} -> "unparsable"
      [] OTHER -> "parsed"

\* a confidence as JSON carries it: a number, or something that is no number
Num(n) == [isnum |-> TRUE, v |-> n]

NotANumber == [isnum |-> FALSE, v |-> 0]

\* ---- validator
\* json.loads("{}"): the dict with no keys
EmptyValidation ==
    [is_clear |-> Absent, confidence |-> Absent, issues |-> Absent,
     suggestions |-> Absent, clarifying_questions |-> Absent, interpreted_as |-> Absent]

\* (clarifying_questions, suggestions) pairs a validator object may carry
QuestionHintPairs ==
    { <<Absent, Absent>>, <<Some(<<>>), Some(<<>>)>>,
      <<Some(<<"which year?">>), Some(<<>>)>>,
      <<Some(<<"which year?">>), Some(<<"add a fiscal year">>)>> }

ValidationDicts ==
    { [is_clear |-> c, confidence |-> f, issues |-> Some(<<>>),
       suggestions |-> p[2], clarifying_questions |-> p[1],
       interpreted_as |-> Some("spend per project")] :
         c \in {Some(TRUE), Some(FALSE)},
         f \in {Some(Num(30)), Some(Num(50)), Some(NotANumber), Absent},
         p \in QuestionHintPairs }
      \cup { [is_clear |-> Some(TRUE), confidence |-> Some(Num(150)), issues |-> Some(<<>>),
               suggestions |-> Absent, clarifying_questions |-> Absent,
               interpreted_as |-> Some("spend per project")] }

ValidatorReplies ==
    {Reply("raise"), SentinelReply, Reply("nonstr"), Reply("nojson"), Reply("badjson")}
      \cup {ObjectReply(d) : d \in ValidationDicts \cup {EmptyValidation}}

\* ---- generator and repair
\* the chart types SQL_QUERY_PROMPT asks the completion service to choose from
ChartTypes ==
    {"bar", "grouped_bar", "line", "pie", "area", "scatter", "heatmap", "treemap",
     "waterfall", "none"}

GenerationDicts ==
    { [sql |-> s, explanation |-> x[1], chart_type |-> x[2]] :
         s \in {Absent, Some("")} \cup {Some(q) : q \in GeneratedSqls},
         x \in {<<Absent, Absent>>}
                 \cup {<<Some(e), Some("pie")>> : e \in Explanations}
                 \cup {<<Some(e), Some("donut")>> : e \in Explanations} }

GeneratorReplies ==
    {Reply("raise"), SentinelReply, Reply("nonstr"), Reply("badjson"), Reply("nondict")}
      \cup {ObjectReply(d) : d \in GenerationDicts}

RepairDicts ==
    { [sql |-> s, explanation |-> Some("fixed the column"), chart_type |-> c] :
         s \in {Absent} \cup {Some(q) : q \in RepairedSqls},
         c \in {Absent, Some("line")} }

RepairReplies ==
    {Reply("raise"), SentinelReply, Reply("nonstr"), Reply("badjson"), Reply("nondict")}
      \cup {ObjectReply(d) : d \in RepairDicts}

\* ---- insight and follow-ups
NonTextContent == "<content that is not a str>"

InsightReplies == {Reply("raise"), SentinelReply, Reply("nonstr"), TextReply("spend rose 4%")}

FollowupLists ==
    { <<>>, <<"by quarter?", "by region?", "top 5?">>,
      <<"by quarter?", "by region?", "top 5?", "vs budget?">> }

FollowupReplies ==
    {Reply("raise"), SentinelReply, Reply("nonstr"), Reply("nojson"), Reply("badjson")} \cup {ListReply(l) : l \in FollowupLists}

\* ---- the store
StoreReplies ==
    {[ok |-> TRUE, rows |-> Some(t), err |-> <<>>] : t \in ResultTables}
      \cup {[ok |-> FALSE, rows |-> Absent, err |-> e] : e \in ErrorTexts}

\* ---- classifier
ClassifierDicts ==
    { [intent |-> Some(i), confidence |-> Some(Num(c)), reasoning |-> Some("llm"),
       suggested_agent |-> Some("agent"), refined_query |-> q] :
         i \in {"DATA_SQL_QUERY", "SEMANTIC_SEARCH", "GENERAL_CHAT"},
         c \in {30, 50},
         q \in {Absent} \cup {Some(r) : r \in RefinedQueries} }
      \cup { [intent |-> Some("GENERAL_CHAT"), confidence |-> Some(Num(150)),
               reasoning |-> Some("llm"), suggested_agent |-> Some("agent"),
               refined_query |-> Absent] }

\* objects IntentResponse(**data) rejects, and the empty object
BadClassifierDicts ==
    { [intent |-> Absent, confidence |-> Absent, reasoning |-> Absent,
       suggested_agent |-> Absent, refined_query |-> Absent],
      [intent |-> Some("WEATHER"), confidence |-> Some(Num(90)), reasoning |-> Some("llm"),
       suggested_agent |-> Some("agent"), refined_query |-> Absent],
      [intent |-> Some("DATA_SQL_QUERY"), confidence |-> Some(NotANumber), reasoning |-> Some("llm"),
       suggested_agent |-> Some("agent"), refined_query |-> Absent],
      [intent |-> Some("DATA_SQL_QUERY"), confidence |-> Some(Num(90)), reasoning |-> Absent,
       suggested_agent |-> Some("agent"), refined_query |-> Absent] }

ClassifierReplies ==
    {Reply("raise"), SentinelReply, Reply("nonstr"), Reply("nojson"), Reply("badjson")}
      \cup {ObjectReply(d) : d \in ClassifierDicts \cup BadClassifierDicts}

\* what the out-of-scope collaborators (semantic search, chat) may do
DelegateReplies == {Reply("raise"), TextReply("an answer")}

\* ================================================================ functions
IntentTypes == {"DATA_SQL_QUERY", "SEMANTIC_SEARCH", "GENERAL_CHAT"}

\* sum(1 for kw in sql_keywords if kw in q): spend, total, by project / variance
SqlScore(q) ==
    CASE q = "total spend by project" -> 3
      [] q = "explain the variance policy" -> 1
      [] OTHER -> 0

\* sum(1 for kw in rag_keywords if kw in q): explain, policy
RagScore(q) ==
    CASE q = "explain the variance policy" -> 2
      [] OTHER -> 0

\* len(q.split())
WordCount(q) ==
    CASE q = "total spend by project" -> 4
      [] q = "explain the variance policy" -> 4
      [] OTHER -> 1

\* (variant: "more than 3 words" tested as "3 words or more")
FallbackDecision_ThreeWords(sql_score, rag_score, words, user_query) ==
    IF sql_score >= 2 \/ (sql_score >= 1 /\ rag_score = 0 /\ words >= 3)
    THEN [intent |-> "DATA_SQL_QUERY", confidence |-> 75, reasoning |-> "keyword: data",
          suggested_agent |-> "SqlAgent", refined_query |-> Some(user_query)]
    ELSE IF rag_score >= 1
    THEN [intent |-> "SEMANTIC_SEARCH", confidence |-> 70, reasoning |-> "keyword: semantic",
          suggested_agent |-> "SemanticAgent", refined_query |-> Absent]
    ELSE [intent |-> "GENERAL_CHAT", confidence |-> 80, reasoning |-> "keyword: chat",
          suggested_agent |-> "ChatBot", refined_query |-> Absent]

\* the if / elif / else of _keyword_fallback over the two scores and the word count
FallbackDecision(sql_score, rag_score, words, user_query) ==
    IF sql_score >= 2 \/ (sql_score >= 1 /\ rag_score = 0 /\ words > 3)
    THEN [intent |-> "DATA_SQL_QUERY", confidence |-> 75, reasoning |-> "keyword: data",
          suggested_agent |-> "SqlAgent", refined_query |-> Some(user_query)]
    ELSE IF rag_score >= 1
    THEN [intent |-> "SEMANTIC_SEARCH", confidence |-> 70, reasoning |-> "keyword: semantic",
          suggested_agent |-> "SemanticAgent", refined_query |-> Absent]
    ELSE [intent |-> "GENERAL_CHAT", confidence |-> 80, reasoning |-> "keyword: chat",
          suggested_agent |-> "ChatBot", refined_query |-> Absent]

_keyword_fallback(user_query) ==
    FallbackDecision(SqlScore(user_query), RagScore(user_query), WordCount(user_query), user_query)

\* (variant: the intent is not checked against the IntentType enum)
Accepted_AnyIntent(d) ==
    /\ d.intent # Absent
    /\ d.confidence # Absent /\ d.confidence[1].isnum
    /\ d.reasoning # Absent
    /\ d.suggested_agent # Absent

\* IntentResponse(**data) validates
Accepted(d) ==
    /\ d.intent # Absent /\ d.intent[1] \in IntentTypes
    /\ d.confidence # Absent /\ d.confidence[1].isnum
    /\ d.reasoning # Absent
    /\ d.suggested_agent # Absent

identify_intent(user_query, reply) ==
    IF reply.kind = "object" /\ Accepted(reply.obj[1])
    THEN LET d == reply.obj[1] IN
         [intent |-> d.intent[1], confidence |-> d.confidence[1].v, reasoning |-> d.reasoning[1],
          suggested_agent |-> d.suggested_agent[1], refined_query |-> d.refined_query]
    ELSE _keyword_fallback(user_query)

\* the fail-open default of validate_query
DefaultValidation(user_query) ==
    [is_clear |-> Some(TRUE), confidence |-> Some(Num(70)), issues |-> Some(<<>>),
     suggestions |-> Some(<<>>), clarifying_questions |-> Some(<<>>),
     interpreted_as |-> Some(user_query)]

\* the sentinel has both braces and parses: json.loads("{}") is returned
validate_query(user_query, reply) ==
    CASE reply.kind = "object" -> reply.obj[1]
      [] reply.kind = "sentinel" -> EmptyValidation
      [] OTHER -> DefaultValidation(user_query)

\* (sql, explanation, chart_type)
_llm_sql_gen(reply) ==
    CASE reply.kind = "nonstr" -> <<"", "LLM Error: Non-string response", "bar">>
      [] reply.kind \in {"badjson", "nojson"} -> <<"", "JSON Parsing Error", "bar">>
      [] reply.kind = "sentinel" -> <<"", "", "bar">>
      [] reply.kind = "object" ->
           <<Get(reply.obj[1], "sql", ""), Get(reply.obj[1], "explanation", ""),
             Get(reply.obj[1], "chart_type", "bar")>>
      [] OTHER -> <<"", "Error: ...", "bar">>

fix_sql(broken_sql, expl, error_msg, reply) == _llm_sql_gen(reply)[1]

_deep_analysis(expl, reply) ==
    CASE reply.kind = "raise" -> expl
      [] reply.kind = "nonstr" -> NonTextContent
      [] OTHER -> reply.text

\* what get_db_session() hands to the rollback attempt of execute_query:
\*   none            the generator yields None (the fallback definition)
\*   live            a session whose rollback() succeeds
\*   rollback fails  a session whose rollback() raises
\*   unavailable     get_db_session() or next() raises
Sessions == {"none", "live", "rollback fails", "unavailable"}

\* the text of an error raised during the rollback attempt
RollbackErr == <<4, 4>>

\* what the rollback attempt does with the session
Rollback(session) ==
    CASE session = "none" -> "no session"
      [] session = "live" -> "rolled back"
      [] OTHER -> "failed"

\* (variant: an error of the rollback attempt replaces the store's error)
execute_query_RollbackErrorWins(query, reply, session) ==
    IF query = ""
    THEN [raised |-> FALSE, results |-> Absent, err |-> <<>>, store_called |-> FALSE,
          rollback |-> "not attempted"]
    ELSE IF reply.ok
    THEN [raised |-> FALSE, results |-> reply.rows, err |-> <<>>, store_called |-> TRUE,
          rollback |-> "not attempted"]
    ELSE [raised |-> TRUE, results |-> Absent,
          err |-> IF Rollback(session) = "failed" THEN RollbackErr ELSE reply.err,
          store_called |-> TRUE, rollback |-> Rollback(session)]

\* execute_query: None for an empty query, the store's rows, or the store's
\* error re-raised after the rollback attempt
execute_query(query, reply, session) ==
    IF query = ""
    THEN [raised |-> FALSE, results |-> Absent, err |-> <<>>, store_called |-> FALSE,
          rollback |-> "not attempted"]
    ELSE IF reply.ok
    THEN [raised |-> FALSE, results |-> reply.rows, err |-> <<>>, store_called |-> TRUE,
          rollback |-> "not attempted"]
    ELSE [raised |-> TRUE, results |-> Absent, err |-> reply.err,
          store_called |-> TRUE, rollback |-> Rollback(session)]

\* (variant: the list is returned without the [:3] slice)
_generate_followups_Unsliced(reply) ==
    IF reply.kind = "list" THEN reply.items ELSE <<>>

_generate_followups(reply) ==
    IF reply.kind = "list" THEN Take(reply.items, MaxFollowups) ELSE <<>>

Warning(w, n) == [warning |-> w, count |-> n]

\* (variant: the zero-value check is an elif of the few-rows check)
_check_data_quality_Elif(res) ==
    IF res = Absent THEN <<Warning("no results", 0)>>
    ELSE LET t == res[1] IN
         (IF t.nulls THEN <<Warning("null values", 0)>> ELSE <<>>)
         \o (IF t.newlines <= 2 THEN <<Warning("very few rows", 0)>>
             ELSE IF t.zeros > 3 THEN <<Warning("zero values", t.zeros)>> ELSE <<>>)
         \o (IF t.minus /\ t.fin_kw THEN <<Warning("negative values", 0)>> ELSE <<>>)

_check_data_quality(res) ==
    IF res = Absent THEN <<Warning("no results", 0)>>
    ELSE LET t == res[1] IN
         (IF t.nulls THEN <<Warning("null values", 0)>> ELSE <<>>)
         \o (IF t.newlines <= 2 THEN <<Warning("very few rows", 0)>> ELSE <<>>)
         \o (IF t.zeros > 3 THEN <<Warning("zero values", t.zeros)>> ELSE <<>>)
         \o (IF t.minus /\ t.fin_kw THEN <<Warning("negative values", 0)>> ELSE <<>>)

\* ---------------------------------------------------------------- envelopes
RouterHints == <<"ask about specific metrics", "ask about resource data", "ask for explanations">>

DefaultHints == <<"rephrase with column names", "specify the time period", "mention the exact table">>

SystemHints == <<"try a simpler query", "check the database connection", "verify data has been ingested">>

NoResponse == [status |-> "none"]

RouterClarification(d) ==
    [status |-> "clarification_needed",
     message |-> [id |-> "not sure", confidence |-> d.confidence],
     suggestions |-> RouterHints,
     reasoning |-> d.reasoning]

ValidatorClarification(v) ==
    [status |-> "clarification_needed",
     message |-> [id |-> "clarify"],
     interpreted_as |-> Get(v, "interpreted_as", ""),
     issues |-> Get(v, "issues", <<>>),
     clarifying_questions |-> Get(v, "clarifying_questions", <<>>),
     suggestions |-> Get(v, "suggestions", <<>>)]

\* (variant: a failed generation reported as a request to clarify)
GenerationError_AsClarification(v) ==
    [status |-> "clarification_needed",
     message |-> [id |-> "could not generate"],
     suggestions |-> Get(v, "suggestions", <<>>)]

GenerationError(v) ==
    [status |-> "error",
     message |-> [id |-> "could not generate"],
     suggestions |-> Get(v, "suggestions", <<>>)]

\* (variant: the error text is put in the message unsliced)
RetriesExhausted_Unsliced(v, limit, err, last) ==
    [status |-> "error",
     message |-> [id |-> "tried", tries |-> limit, last_error |-> err],
     last_sql |-> last,
     suggestions |-> Get(v, "suggestions", DefaultHints)]

RetriesExhausted(v, limit, err, last) ==
    [status |-> "error",
     message |-> [id |-> "tried", tries |-> limit, last_error |-> Take(err, ErrTruncLen)],
     last_sql |-> last,
     suggestions |-> Get(v, "suggestions", DefaultHints)]

Success(v, q, an, res, chart, fu) ==
    [status |-> "success", sql |-> q, explanation |-> an, results |-> res,
     chart_type |-> chart, followup_suggestions |-> fu,
     data_quality_warnings |-> _check_data_quality(res),
     query_interpretation |-> Get(v, "interpreted_as", ""),
     validation_suggestions |-> Get(v, "suggestions", <<>>)]

SystemError ==
    [status |-> "error", message |-> [id |-> "system error"], suggestions |-> SystemHints]

\* a collaborator's plain text handed through by run_chain (no envelope)
PlainText(t) == [status |-> "plain_text", text |-> t]

\* an exception reaching a direct caller of SQLQueryAgent.run (no envelope)
Escaped == [status |-> "exception"]

\* ==================================================================== state
VARIABLES
    pc,            \* where the request is: idle, classify, delegate, validate,
                   \* generate, execute, repair, insight, followups, done
    entry,         \* "run_chain" (through the orchestrator) or "run" (direct call)
    user_query,    \* route_and_execute's argument
    decision,      \* the IntentResponse of identify_intent
    user_input,    \* run's argument
    retry_limit,   \* run's argument
    validation,    \* run's local: the validation dict
    sql,           \* run's local: the current query text
    explanation,   \* run's local
    chart_type,    \* run's local
    current_try,   \* run's local: the attempt counter
    last_error,    \* run's local
    results,       \* run's local: None (Absent) or the rendered rows
    analysis,      \* run's local
    response,      \* what the caller of the entry point receives
    trace,         \* history: the calls made for the current request, in order
    fn_input,      \* a pure function examined on its own: its arguments
    fn_output,     \* ... and its result, once applied
    flows          \* concurrent calls of run on one agent: each call's locals

vars == <<pc, entry, user_query, decision, user_input, retry_limit, validation, sql,
          explanation, chart_type, current_try, last_error, results, analysis,
          response, trace, fn_input, fn_output, flows>>

\* the variables the request pipeline never touches
fn_vars == <<fn_input, fn_output, flows>>

\* no function under examination / not applied yet
NoCall == [fn |-> "none"]

\* no concurrent calls under examination
NoFlows == <<>>

NoDecision ==
    [intent |-> "none", confidence |-> 0, reasoning |-> "", suggested_agent |-> "",
     refined_query |-> Absent]

\* one call to a collaborator (or to execute_query), as the history keeps it
\* arg is the text handed to the call, err the error text involved (raised by
\* the store, or handed to the repair), out the query text that came back
Event(op, arg, err, out, ok) == [op |-> op, arg |-> arg, err |-> err, out |-> out, ok |-> ok]

Log(op) == Append(trace, Event(op, "", <<>>, "", TRUE))

\* a completion call that hands back no query text: ok keeps whether the
\* reply was a well-formed answer, out is left empty or keeps the reply's class
LogCall(op, arg, out, ok) == Append(trace, Event(op, arg, <<>>, out, ok))

Init ==
    /\ pc = "idle"
    /\ entry = "none"
    /\ user_query = ""
    /\ decision = NoDecision
    /\ user_input = ""
    /\ retry_limit = DefaultRetryLimit
    /\ validation = EmptyValidation
    /\ sql = ""
    /\ explanation = ""
    /\ chart_type = ""
    /\ current_try = 0
    /\ last_error = <<>>
    /\ results = Absent
    /\ analysis = ""
    /\ response = NoResponse
    /\ trace = <<>>
    /\ fn_input = NoCall
    /\ fn_output = NoCall
    /\ flows = NoFlows

\* ------------------------------------------------------------- control flow
\* `return env` out of run / route_and_execute; run_chain hands it through
Return(env) ==
    /\ response' = env
    /\ pc' = "done"

\* (variant: run_chain without its except clause)
Raise_Unhandled ==
    /\ response' = Escaped
    /\ pc' = "done"

\* an exception leaves run / route_and_execute: run_chain's except clause
\* turns it into the system-error envelope, a direct caller of run sees it
Raise ==
    /\ response' = IF entry = "run_chain" THEN SystemError ELSE Escaped
    /\ pc' = "done"

\* the clarification test of run: `not is_clear and confidence < 0.5 and questions`
NotClear(v) == ~Get(v, "is_clear", TRUE)

\* `confidence < 0.5` on a value that is no number raises TypeError
ComparisonRaises(v) == NotClear(v) /\ ~Get(v, "confidence", Num(100)).isnum

NeedsClarification(v) ==
    /\ NotClear(v)
    /\ Get(v, "confidence", Num(100)).v < ConfidenceGate
    /\ Get(v, "clarifying_questions", <<>>) # <<>>

\* (variant: the loop test off by one)
LoopContinues_OffByOne(try, limit) == try <= limit

\* `while current_try < retry_limit`
LoopContinues(try, limit) == try < limit

\* (variant: the emptiness test left out)
IsEmpty_Never(q) == FALSE

\* `if not sql` in run and in execute_query
IsEmpty(q) == q = ""

\* ------------------------------------------------------------------ actions
\* OrchestrationAgent.run_chain(user_input) is called
RunChain(u) ==
    /\ pc = "idle"
    /\ UNCHANGED fn_vars
    /\ pc' = "classify"
    /\ entry' = "run_chain"
    /\ user_query' = u
    /\ retry_limit' = DefaultRetryLimit
    /\ UNCHANGED <<decision, user_input, validation, sql, explanation, chart_type,
                   current_try, last_error, results, analysis, response, trace>>

\* SQLQueryAgent.run(user_input, retry_limit) is called directly
DirectRun(u, limit) ==
    /\ pc = "idle"
    /\ UNCHANGED fn_vars
    /\ pc' = "validate"
    /\ entry' = "run"
    /\ user_input' = u
    /\ retry_limit' = limit
    /\ UNCHANGED <<user_query, decision, validation, sql, explanation, chart_type,
                   current_try, last_error, results, analysis, response, trace>>

\* (variant: the refined query is ignored)
FinalQuery_RawOnly(d, raw) == raw

\* final_query = decision.refined_query if decision.refined_query else user_query
FinalQuery(d, raw) ==
    IF d.refined_query # Absent /\ ~IsEmpty(d.refined_query[1])
    THEN d.refined_query[1] ELSE raw

\* (variant: the confidence gate is applied in the DATA_SQL_QUERY branch only)
IdentifyIntent_GateOnDataOnly(reply) ==
    /\ pc = "classify"
    /\ UNCHANGED fn_vars
    /\ LET d == identify_intent(user_query, reply) IN
       /\ decision' = d
       /\ trace' = LogCall("classify", user_query, "",
                           reply.kind = "object" /\ reply.obj[1] \in ClassifierDicts)
       /\ IF d.intent = "DATA_SQL_QUERY" /\ d.confidence < ConfidenceGate
          THEN Return(RouterClarification(d)) /\ UNCHANGED user_input
          ELSE IF d.intent = "DATA_SQL_QUERY"
          THEN /\ user_input' = FinalQuery(d, user_query)
               /\ pc' = "validate"
               /\ UNCHANGED response
          ELSE /\ pc' = "delegate"
               /\ UNCHANGED <<user_input, response>>
    /\ UNCHANGED <<entry, user_query, retry_limit, validation, sql, explanation, chart_type,
                   current_try, last_error, results, analysis>>

\* route_and_execute: identify_intent, the confidence gate and the branch
IdentifyIntent(reply) ==
    /\ pc = "classify"
    /\ UNCHANGED fn_vars
    /\ LET d == identify_intent(user_query, reply) IN
       /\ decision' = d
       /\ trace' = LogCall("classify", user_query, "",
                           reply.kind = "object" /\ reply.obj[1] \in ClassifierDicts)
       /\ IF d.confidence < ConfidenceGate
          THEN Return(RouterClarification(d)) /\ UNCHANGED user_input
          ELSE IF d.intent = "DATA_SQL_QUERY"
          THEN /\ user_input' = FinalQuery(d, user_query)
               /\ pc' = "validate"
               /\ UNCHANGED response
          ELSE /\ pc' = "delegate"
               /\ UNCHANGED <<user_input, response>>
    /\ UNCHANGED <<entry, user_query, retry_limit, validation, sql, explanation, chart_type,
                   current_try, last_error, results, analysis>>

\* semantic_agent.run / chatbot_agent.run
Delegate(reply) ==
    /\ pc = "delegate"
    /\ UNCHANGED fn_vars
    /\ trace' = Log("delegate")
    /\ IF reply.kind = "raise" THEN Raise ELSE Return(PlainText(reply.text))
    /\ UNCHANGED <<entry, user_query, decision, user_input, retry_limit, validation, sql,
                   explanation, chart_type, current_try, last_error, results, analysis>>

\* run, step 1: validate_query and the clarification short-circuit
ValidateQuery(reply) ==
    /\ pc = "validate"
    /\ UNCHANGED fn_vars
    /\ LET v == validate_query(user_input, reply) IN
       /\ validation' = v
       /\ trace' = LogCall("validate", user_input, "", reply.kind = "object")
       /\ IF ComparisonRaises(v) THEN Raise
          ELSE IF NeedsClarification(v) THEN Return(ValidatorClarification(v))
          ELSE pc' = "generate" /\ UNCHANGED response
    /\ UNCHANGED <<entry, user_query, decision, user_input, retry_limit, sql, explanation,
                   chart_type, current_try, last_error, results, analysis>>

\* run, step 2: get_sql; an empty query ends the request, otherwise the loop
\* is entered (current_try = 0, last_error = "")
GetSql(schema_ok, reply) ==
    /\ pc = "generate"
    /\ UNCHANGED fn_vars
    /\ IF ~schema_ok
       THEN /\ Raise
            /\ trace' = Append(trace, Event("schema", user_input, <<>>, "", FALSE))
            /\ UNCHANGED <<sql, explanation, chart_type>>
       ELSE LET g == _llm_sql_gen(reply) IN
            /\ sql' = g[1]
            /\ explanation' = g[2]
            /\ chart_type' = g[3]
            /\ trace' = Append(Append(trace, Event("schema", user_input, <<>>, "", TRUE)),
                                Event("generate", user_input, <<>>, g[1], TRUE))
            /\ IF IsEmpty(g[1]) THEN Return(GenerationError(validation))
               ELSE IF LoopContinues(0, retry_limit) THEN pc' = "execute" /\ UNCHANGED response
               ELSE Return(RetriesExhausted(validation, retry_limit, <<>>, g[1]))
    /\ UNCHANGED <<entry, user_query, decision, user_input, retry_limit, validation,
                   current_try, last_error, results, analysis>>

\* (variant: the except clause keeps a sliced copy of the error text)
ExecuteQuery_SlicedError(reply, session) ==
    /\ pc = "execute"
    /\ UNCHANGED fn_vars
    /\ LET x == execute_query(sql, reply, session) IN
       /\ trace' = IF x.store_called
                   THEN Append(trace, Event("store", sql, reply.err, "", reply.ok))
                   ELSE Append(trace, Event("skip", sql, <<>>, "", TRUE))
       /\ IF x.raised
          THEN /\ last_error' = Take(x.err, ErrTruncLen)
               /\ pc' = "repair"
               /\ UNCHANGED results
          ELSE /\ results' = x.results
               /\ pc' = "insight"
               /\ UNCHANGED last_error
    /\ UNCHANGED <<entry, user_query, decision, user_input, retry_limit, validation, sql,
                   explanation, chart_type, current_try, analysis, response>>

\* run, step 3: execute_query(sql) and the loop's except clause, which keeps
\* str(e) in last_error
ExecuteQuery(reply, session) ==
    /\ pc = "execute"
    /\ UNCHANGED fn_vars
    /\ LET x == execute_query(sql, reply, session) IN
       /\ trace' = IF x.store_called
                   THEN Append(trace, Event("store", sql, reply.err, "", reply.ok))
                   ELSE Append(trace, Event("skip", sql, <<>>, "", TRUE))
       /\ IF x.raised
          THEN /\ last_error' = x.err
               /\ pc' = "repair"
               /\ UNCHANGED results
          ELSE /\ results' = x.results
               /\ pc' = "insight"
               /\ UNCHANGED last_error
    /\ UNCHANGED <<entry, user_query, decision, user_input, retry_limit, validation, sql,
                   explanation, chart_type, current_try, analysis, response>>

\* (variant: the repair reply's explanation and chart hint are kept too)
FixSql_KeepsWholeReply(reply) ==
    /\ pc = "repair"
    /\ UNCHANGED fn_vars
    /\ LET fixed == _llm_sql_gen(reply) IN
       /\ trace' = Append(trace, Event("repair", sql, last_error, fixed[1], TRUE))
       /\ sql' = fixed[1]
       /\ explanation' = fixed[2]
       /\ chart_type' = fixed[3]
       /\ current_try' = current_try + 1
       /\ IF LoopContinues(current_try + 1, retry_limit)
          THEN pc' = "execute" /\ UNCHANGED response
          ELSE Return(RetriesExhausted(validation, retry_limit, last_error, fixed[1]))
    /\ UNCHANGED <<entry, user_query, decision, user_input, retry_limit, validation,
                   last_error, results, analysis>>

\* (variant: the repaired query is not assigned to sql)
FixSql_Unassigned(reply) ==
    /\ pc = "repair"
    /\ UNCHANGED fn_vars
    /\ LET fixed == fix_sql(sql, explanation, last_error, reply) IN
       /\ trace' = Append(trace, Event("repair", sql, last_error, fixed, TRUE))
       /\ sql' = sql
       /\ current_try' = current_try + 1
       /\ IF LoopContinues(current_try + 1, retry_limit)
          THEN pc' = "execute" /\ UNCHANGED response
          ELSE Return(RetriesExhausted(validation, retry_limit, last_error, sql))
    /\ UNCHANGED <<entry, user_query, decision, user_input, retry_limit, validation,
                   explanation, chart_type, last_error, results, analysis>>

\* run, the except clause: sql = fix_sql(sql, explanation, last_error);
\* current_try += 1; then the loop test, and the final error once it fails
FixSql(reply) ==
    /\ pc = "repair"
    /\ UNCHANGED fn_vars
    /\ LET fixed == fix_sql(sql, explanation, last_error, reply) IN
       /\ trace' = Append(trace, Event("repair", sql, last_error, fixed, TRUE))
       /\ sql' = fixed
       /\ current_try' = current_try + 1
       /\ IF LoopContinues(current_try + 1, retry_limit)
          THEN pc' = "execute" /\ UNCHANGED response
          ELSE Return(RetriesExhausted(validation, retry_limit, last_error, fixed))
    /\ UNCHANGED <<entry, user_query, decision, user_input, retry_limit, validation,
                   explanation, chart_type, last_error, results, analysis>>

\* run, step 4: _deep_analysis
DeepAnalysis(reply) ==
    /\ pc = "insight"
    /\ UNCHANGED fn_vars
    /\ analysis' = _deep_analysis(explanation, reply)
    /\ trace' = LogCall("insight", user_input, ReplyClass(reply), reply.kind = "text")
    /\ pc' = "followups"
    /\ UNCHANGED <<entry, user_query, decision, user_input, retry_limit, validation, sql,
                   explanation, chart_type, current_try, last_error, results, response>>

\* run, steps 5 and 6: _generate_followups, _check_data_quality, the success envelope
GenerateFollowups(reply) ==
    /\ pc = "followups"
    /\ UNCHANGED fn_vars
    /\ trace' = LogCall("followups", user_input, "", reply.kind = "list")
    /\ Return(Success(validation, sql, analysis, results, chart_type,
                      _generate_followups(reply)))
    /\ UNCHANGED <<entry, user_query, decision, user_input, retry_limit, validation, sql,
                   explanation, chart_type, current_try, last_error, results, analysis>>

\* the next request starts from fresh locals
NextRequest ==
    /\ pc = "done"
    /\ UNCHANGED fn_vars
    /\ pc' = "idle"
    /\ entry' = "none"
    /\ user_query' = ""
    /\ decision' = NoDecision
    /\ user_input' = ""
    /\ retry_limit' = DefaultRetryLimit
    /\ validation' = EmptyValidation
    /\ sql' = ""
    /\ explanation' = ""
    /\ chart_type' = ""
    /\ current_try' = 0
    /\ last_error' = <<>>
    /\ results' = Absent
    /\ analysis' = ""
    /\ response' = NoResponse
    /\ trace' = <<>>

Next ==
    \/ \E u \in UserInputs : RunChain(u)
    \/ \E u \in UserInputs, limit \in 0..MaxRetryLimit : DirectRun(u, limit)
    \/ \E reply \in ClassifierReplies : IdentifyIntent(reply)
    \/ \E reply \in DelegateReplies : Delegate(reply)
    \/ \E reply \in ValidatorReplies : ValidateQuery(reply)
    \/ \E ok \in BOOLEAN, reply \in GeneratorReplies : GetSql(ok, reply)
    \/ \E reply \in StoreReplies, session \in Sessions : ExecuteQuery(reply, session)
    \/ \E reply \in RepairReplies : FixSql(reply)
    \/ \E reply \in InsightReplies : DeepAnalysis(reply)
    \/ \E reply \in FollowupReplies : GenerateFollowups(reply)
    \/ NextRequest

Spec == Init /\ [][Next]_vars

\* ---- _keyword_fallback examined on its own, over scores and word counts
FallbackTexts == {"first request", "second request"}

FallbackInputs ==
    { [fn |-> "_keyword_fallback", sql_score |-> a, rag_score |-> b, words |-> w, text |-> t] :
         a \in 0..MaxScore, b \in 0..MaxScore, w \in 0..MaxWords, t \in FallbackTexts }

FallbackInit ==
    /\ pc = "idle"
    /\ entry = "none"
    /\ user_query = ""
    /\ decision = NoDecision
    /\ user_input = ""
    /\ retry_limit = DefaultRetryLimit
    /\ validation = EmptyValidation
    /\ sql = ""
    /\ explanation = ""
    /\ chart_type = ""
    /\ current_try = 0
    /\ last_error = <<>>
    /\ results = Absent
    /\ analysis = ""
    /\ response = NoResponse
    /\ trace = <<>>
    /\ fn_input \in FallbackInputs
    /\ fn_output = NoCall
    /\ flows = NoFlows

ApplyFallback ==
    /\ fn_input.fn = "_keyword_fallback"
    /\ fn_output = NoCall
    /\ fn_output' = [fn |-> "_keyword_fallback",
                     result |-> FallbackDecision(fn_input.sql_score, fn_input.rag_score,
                                                 fn_input.words, fn_input.text)]
    /\ UNCHANGED <<pc, entry, user_query, decision, user_input, retry_limit, validation, sql,
                   explanation, chart_type, current_try, last_error, results, analysis,
                   response, trace, fn_input, flows>>

FallbackNext == ApplyFallback

FallbackSpec == FallbackInit /\ [][FallbackNext]_vars

\* ---- the specifications below examine one function each; no request is
\* in the pipeline meanwhile
pipeline_vars == <<pc, entry, user_query, decision, user_input, retry_limit, validation, sql,
                   explanation, chart_type, current_try, last_error, results, analysis,
                   response, trace>>

PipelineIdle ==
    /\ pc = "idle"
    /\ entry = "none"
    /\ user_query = ""
    /\ decision = NoDecision
    /\ user_input = ""
    /\ retry_limit = DefaultRetryLimit
    /\ validation = EmptyValidation
    /\ sql = ""
    /\ explanation = ""
    /\ chart_type = ""
    /\ current_try = 0
    /\ last_error = <<>>
    /\ results = Absent
    /\ analysis = ""
    /\ response = NoResponse
    /\ trace = <<>>

\* ---- execute_query examined on its own, with the except clause of run's
\* loop that receives what it raises
ExecuteInputs ==
    { [fn |-> "execute_query", sql |-> q, reply |-> r, session |-> x] :
         q \in {""} \cup GeneratedSqls \cup RepairedSqls, r \in StoreReplies, x \in Sessions }

ExecuteInit ==
    /\ PipelineIdle
    /\ fn_input \in ExecuteInputs
    /\ fn_output = NoCall
    /\ flows = NoFlows

\* the try body of the loop: results = self.execute_query(sql)
ApplyExecuteQuery ==
    /\ fn_input.fn = "execute_query"
    /\ fn_output = NoCall
    /\ fn_output' = [fn |-> "execute_query", stage |-> "called",
                     out |-> execute_query(fn_input.sql, fn_input.reply, fn_input.session),
                     last_error |-> <<>>, repair_error |-> <<>>]
    /\ UNCHANGED <<pipeline_vars, fn_input, flows>>

\* except Exception as e: last_error = str(e); fix_sql(sql, explanation, last_error)
ApplyExcept ==
    /\ fn_output # NoCall
    /\ fn_output.fn = "execute_query"
    /\ fn_output.stage = "called"
    /\ fn_output.out.raised
    /\ fn_output' = [fn_output EXCEPT !.stage = "caught",
                                      !.last_error = fn_output.out.err,
                                      !.repair_error = fn_output.out.err]
    /\ UNCHANGED <<pipeline_vars, fn_input, flows>>

ExecuteNext == ApplyExecuteQuery \/ ApplyExcept

ExecuteSpec == ExecuteInit /\ [][ExecuteNext]_vars

\* ---- _check_data_quality examined on its own, over what it measures on
\* str(results)
QualityInputs ==
    { [fn |-> "_check_data_quality", results |-> Absent] }
      \cup { [fn |-> "_check_data_quality",
               results |-> Some([nulls |-> n, newlines |-> l, zeros |-> z, minus |-> m,
                                 fin_kw |-> k])] :
                 n \in BOOLEAN, l \in 0..MaxNewlines, z \in 0..MaxZeros,
                 m \in BOOLEAN, k \in BOOLEAN }

QualityInit ==
    /\ PipelineIdle
    /\ fn_input \in QualityInputs
    /\ fn_output = NoCall
    /\ flows = NoFlows

ApplyCheckDataQuality ==
    /\ fn_input.fn = "_check_data_quality"
    /\ fn_output = NoCall
    /\ fn_output' = [fn |-> "_check_data_quality",
                     result |-> _check_data_quality(fn_input.results)]
    /\ UNCHANGED <<pipeline_vars, fn_input, flows>>

QualityNext == ApplyCheckDataQuality

QualitySpec == QualityInit /\ [][QualityNext]_vars

\* ---- llm_call examined on its own: the loop around model.invoke
\* what result.content may be
Contents == {"an answer", "", NonTextContent}

\* HTTP status codes of a QGenieAPIStatusException
TooManyRequests == 429

ApiStatuses == {TooManyRequests, 500, 503}

\* what one model.invoke does: returns a result, raises
\* QGenieAPIStatusException with an http_status, or raises something else
InvokeOutcomes ==
    {[kind |-> "content", status |-> 0, content |-> c] : c \in Contents}
      \cup {[kind |-> "api_error", status |-> st, content |-> ""] : st \in ApiStatuses}
      \cup {[kind |-> "error", status |-> 0, content |-> ""]}

\* (variant: the retry test lets one retry too many through)
RetryAllowed_OffByOne(retries, max_retries, http_status) ==
    retries <= max_retries /\ http_status = TooManyRequests

\* retries < max_retries and e.http_status == 429
RetryAllowed(retries, max_retries, http_status) ==
    retries < max_retries /\ http_status = TooManyRequests

LlmCallInputs == { [fn |-> "llm_call", max_retries |-> m] : m \in 0..MaxCallRetries }

LlmCallInit ==
    /\ PipelineIdle
    /\ fn_input \in LlmCallInputs
    /\ fn_output = NoCall
    /\ flows = NoFlows

\* the model and the message are built, retries = 0
LlmCallEnter ==
    /\ fn_input.fn = "llm_call"
    /\ fn_output = NoCall
    /\ fn_output' = [fn |-> "llm_call", state |-> "looping", retries |-> 0,
                     history |-> <<>>, result |-> ""]
    /\ UNCHANGED <<pipeline_vars, fn_input, flows>>

\* one pass of the while True loop
LlmInvoke(o) ==
    /\ fn_output # NoCall
    /\ fn_output.fn = "llm_call"
    /\ fn_output.state = "looping"
    /\ fn_output' =
          IF o.kind = "content"
          THEN [fn_output EXCEPT !.history = Append(@, o), !.state = "returned",
                                 !.result = o.content]
          ELSE IF o.kind = "api_error"
                  /\ RetryAllowed(fn_output.retries, fn_input.max_retries, o.status)
          THEN [fn_output EXCEPT !.history = Append(@, o), !.retries = @ + 1]
          ELSE [fn_output EXCEPT !.history = Append(@, o), !.state = "returned",
                                 !.result = Sentinel]
    /\ UNCHANGED <<pipeline_vars, fn_input, flows>>

LlmCallNext ==
    \/ LlmCallEnter
    \/ \E o \in InvokeOutcomes : LlmInvoke(o)

\* every model.invoke returns or raises (the client is built with a timeout)
\* and time.sleep returns
LlmCallSpec == LlmCallInit /\ [][LlmCallNext]_vars /\ WF_vars(LlmCallNext)

\* ---- concurrent calls of run on one SQLQueryAgent.  run keeps the
\* validation, the query text, the attempt counter and the last error in
\* local variables, so each call has its own; the agent's attributes are
\* assigned in __init__ only.
Flows == {1, 2}

\* the locals of a call of run that has not started
IdleLocal ==
    [pc |-> "idle", call_text |-> "", call_limit |-> 0, replies |-> <<>>,
     user_input |-> "", retry_limit |-> DefaultRetryLimit, validation |-> EmptyValidation,
     sql |-> "", explanation |-> "", chart_type |-> "", current_try |-> 0,
     last_error |-> <<>>, results |-> Absent, analysis |-> "", response |-> NoResponse]

\* run(user_input, retry_limit) entered; call_text, call_limit and replies
\* are history: the arguments, and the collaborators' answers so far
StartLocal(u, limit) ==
    [IdleLocal EXCEPT !.pc = "validate", !.call_text = u, !.call_limit = limit,
                      !.user_input = u, !.retry_limit = limit]

\* one step of run on the locals l, given the answer r of the collaborator
\* the step calls
FlowStep(l, r) ==
    CASE l.pc = "validate" ->
           LET v == validate_query(l.user_input, r) IN
           IF ComparisonRaises(v)
           THEN [l EXCEPT !.validation = v, !.pc = "done", !.response = Escaped]
           ELSE IF NeedsClarification(v)
           THEN [l EXCEPT !.validation = v, !.pc = "done",
                          !.response = ValidatorClarification(v)]
           ELSE [l EXCEPT !.validation = v, !.pc = "generate"]
      [] l.pc = "generate" ->
           IF ~r.schema_ok
           THEN [l EXCEPT !.pc = "done", !.response = Escaped]
           ELSE LET g == _llm_sql_gen(r.reply)
                    m == [l EXCEPT !.sql = g[1], !.explanation = g[2], !.chart_type = g[3]]
                IN IF IsEmpty(g[1])
                   THEN [m EXCEPT !.pc = "done", !.response = GenerationError(l.validation)]
                   ELSE IF LoopContinues(0, l.retry_limit)
                   THEN [m EXCEPT !.pc = "execute"]
                   ELSE [m EXCEPT !.pc = "done",
                                  !.response = RetriesExhausted(l.validation, l.retry_limit,
                                                                <<>>, g[1])]
      [] l.pc = "execute" ->
           LET x == execute_query(l.sql, r.reply, r.session) IN
           IF x.raised
           THEN [l EXCEPT !.last_error = x.err, !.pc = "repair"]
           ELSE [l EXCEPT !.results = x.results, !.pc = "insight"]
      [] l.pc = "repair" ->
           LET fixed == fix_sql(l.sql, l.explanation, l.last_error, r)
               m == [l EXCEPT !.sql = fixed, !.current_try = @ + 1]
           IN IF LoopContinues(l.current_try + 1, l.retry_limit)
              THEN [m EXCEPT !.pc = "execute"]
              ELSE [m EXCEPT !.pc = "done",
                             !.response = RetriesExhausted(l.validation, l.retry_limit,
                                                           l.last_error, fixed)]
      [] l.pc = "insight" ->
           [l EXCEPT !.analysis = _deep_analysis(l.explanation, r), !.pc = "followups"]
      [] l.pc = "followups" ->
           [l EXCEPT !.pc = "done",
                     !.response = Success(l.validation, l.sql, l.analysis, l.results,
                                          l.chart_type, _generate_followups(r))]
      [] OTHER -> l

\* the answers the concurrent calls are examined with
ConcInputs == {"total spend by project", "hello"}

ConcLimits == {1, 2}

ConcReplies(stage) ==
    CASE stage = "validate" ->
           {Reply("raise"),
            ObjectReply([is_clear |-> Some(FALSE), confidence |-> Some(Num(30)),
                         issues |-> Some(<<>>), suggestions |-> Some(<<"add a fiscal year">>),
                         clarifying_questions |-> Some(<<"which year?">>),
                         interpreted_as |-> Some("spend per project")])}
      [] stage = "generate" ->
           {[schema_ok |-> FALSE, reply |-> Reply("raise")],
            [schema_ok |-> TRUE, reply |-> Reply("badjson")],
            [schema_ok |-> TRUE,
             reply |-> ObjectReply([sql |-> Some("SELECT a"), explanation |-> Some("sums spend"),
                                    chart_type |-> Some("pie")])]}
      [] stage = "execute" ->
           {[reply |-> sr, session |-> "none"] :
               sr \in {x \in StoreReplies : x.ok \/ x.err = ShortErr}}
      [] stage = "repair" ->
           {Reply("badjson"),
            ObjectReply([sql |-> Some("SELECT b"), explanation |-> Some("fixed the column"),
                         chart_type |-> Absent])}
      [] stage = "insight" -> {Reply("raise"), TextReply("spend rose 4%")}
      [] stage = "followups" ->
           {Reply("nojson"), ListReply(<<"by quarter?", "by region?", "top 5?">>)}
      [] OTHER -> {}

\* (variant: the attempt counter is an attribute of the agent, shared by the calls)
StepFlow_SharedCounter(fl, f, r) ==
    [g \in Flows |->
        IF g = f
        THEN [FlowStep(fl[f], r) EXCEPT !.replies = Append(@, r)]
        ELSE [fl[g] EXCEPT !.current_try = FlowStep(fl[f], r).current_try]]

\* call f takes its step; the other calls' locals are out of its reach
StepFlow(fl, f, r) ==
    [fl EXCEPT ![f] = [FlowStep(fl[f], r) EXCEPT !.replies = Append(@, r)]]

ConcInit ==
    /\ PipelineIdle
    /\ fn_input = NoCall
    /\ fn_output = NoCall
    /\ flows = [f \in Flows |-> IdleLocal]

\* a caller enters run
ConcStart(f, u, limit) ==
    /\ flows[f].pc = "idle"
    /\ flows' = [flows EXCEPT ![f] = StartLocal(u, limit)]
    /\ UNCHANGED <<pipeline_vars, fn_input, fn_output>>

\* the collaborator a call is waiting for answers, and the call runs on to
\* its next collaborator call or to its return
ConcValidateQuery(f, r) ==
    /\ flows[f].pc = "validate"
    /\ flows' = StepFlow(flows, f, r)
    /\ UNCHANGED <<pipeline_vars, fn_input, fn_output>>

ConcGetSql(f, r) ==
    /\ flows[f].pc = "generate"
    /\ flows' = StepFlow(flows, f, r)
    /\ UNCHANGED <<pipeline_vars, fn_input, fn_output>>

ConcExecuteQuery(f, r) ==
    /\ flows[f].pc = "execute"
    /\ flows' = StepFlow(flows, f, r)
    /\ UNCHANGED <<pipeline_vars, fn_input, fn_output>>

ConcFixSql(f, r) ==
    /\ flows[f].pc = "repair"
    /\ flows' = StepFlow(flows, f, r)
    /\ UNCHANGED <<pipeline_vars, fn_input, fn_output>>

ConcDeepAnalysis(f, r) ==
    /\ flows[f].pc = "insight"
    /\ flows' = StepFlow(flows, f, r)
    /\ UNCHANGED <<pipeline_vars, fn_input, fn_output>>

ConcGenerateFollowups(f, r) ==
    /\ flows[f].pc = "followups"
    /\ flows' = StepFlow(flows, f, r)
    /\ UNCHANGED <<pipeline_vars, fn_input, fn_output>>

ConcNext ==
    \/ \E f \in Flows, u \in ConcInputs, limit \in ConcLimits : ConcStart(f, u, limit)
    \/ \E f \in Flows, r \in ConcReplies("validate") : ConcValidateQuery(f, r)
    \/ \E f \in Flows, r \in ConcReplies("generate") : ConcGetSql(f, r)
    \/ \E f \in Flows, r \in ConcReplies("execute") : ConcExecuteQuery(f, r)
    \/ \E f \in Flows, r \in ConcReplies("repair") : ConcFixSql(f, r)
    \/ \E f \in Flows, r \in ConcReplies("insight") : ConcDeepAnalysis(f, r)
    \/ \E f \in Flows, r \in ConcReplies("followups") : ConcGenerateFollowups(f, r)

ConcSpec == ConcInit /\ [][ConcNext]_vars

\* every call to a collaborator returns or fails, and the flow is sequential:
\* a request that can take a step eventually takes one
FairSpec == Spec /\ WF_vars(Next)

TypeOK ==
    /\ pc \in {"idle", "classify", "delegate", "validate", "generate", "execute",
               "repair", "insight", "followups", "done"}
    /\ current_try \in 0..(MaxRetryLimit + DefaultRetryLimit)
    /\ response.status \in {"none", "success", "clarification_needed", "error",
                            "plain_text", "exception"}

\* ================================================================ properties
\* positions in the history of the calls of one kind
Indices(op) == {i \in DOMAIN trace : trace[i].op = op}

Count(op) == Cardinality(Indices(op))

Failed == {i \in Indices("store") : ~trace[i].ok}

Last(S) == CHOOSE i \in S : \A j \in S : j <= i

\* the request ended in the error envelope of the exhausted retry loop
Exhausted == pc = "done" /\ response.status = "error" /\ response.message.id = "tried"

\* C1: for every request the number of store executions never exceeds
\* retry_limit, and while the outcome is not success the attempt counter
\* never goes past retry_limit.
C1_ExecutionsBounded ==
    /\ Count("store") <= retry_limit
    /\ Count("store") + Count("skip") <= retry_limit
    /\ (response.status # "success" => current_try <= retry_limit)

\* every one of the 3 default attempts hit the store and failed
C1_Witness ==
    /\ Exhausted
    /\ retry_limit = DefaultRetryLimit
    /\ Count("store") = retry_limit
    /\ current_try = retry_limit

\* C2: when the store fails on attempts 0..k-1 and succeeds on attempt k, the
\* response is a success whose sql is the query text submitted in attempt k
\* (the k-th repair's output, the generated query when k = 0), and the repair
\* step ran exactly k times.
C2_SuccessOnAttemptK ==
    (pc = "done" /\ \E i \in Indices("store") : trace[i].ok) =>
        LET won == CHOOSE i \in Indices("store") : trace[i].ok
            k == Cardinality(Failed)
        IN /\ \A j \in Failed : j < won
           /\ k < retry_limit
           /\ response.status = "success"
           /\ response.sql = trace[won].arg
           /\ Count("repair") = k
           /\ response.sql = IF k = 0 THEN trace[Last(Indices("generate"))].out
                             ELSE trace[Last(Indices("repair"))].out

\* scenario C: two failures with distinct error texts, success on attempt 2
C2_Witness ==
    /\ pc = "done"
    /\ response.status = "success"
    /\ Cardinality(Failed) = 2
    /\ {trace[j].err : j \in Failed} = ErrorTexts
    /\ \E i \in Indices("store") : trace[i].ok /\ trace[i].arg # trace[Last(Indices("generate"))].out

\* C3 (as claimed): no success envelope is returned for an empty query text;
\* an empty repaired query is a failed attempt.
C3_NoSuccessOnEmptyQuery ==
    /\ (response.status = "success" => response.sql # "")
    /\ (Count("skip") > 0 => response.status # "success")

\* C4: every failed store execution is followed at once by exactly one repair
\* call, which is handed the query text just executed and the literal error
\* text; no repair call happens without a failed execution right before it.
C4_OneRepairPerFailure ==
    /\ \A i \in Failed :
          IF i = Len(trace) THEN pc = "repair"
          ELSE /\ trace[i + 1].op = "repair"
               /\ trace[i + 1].arg = trace[i].arg
               /\ trace[i + 1].err = trace[i].err
    /\ \A j \in Indices("repair") : j > 1 /\ (j - 1) \in Failed
    /\ (pc = "repair" => trace # <<>> /\ Len(trace) \in Failed
                         /\ sql = trace[Len(trace)].arg /\ last_error = trace[Len(trace)].err)

\* a repair was handed the long error text, unsliced, after a second failure
C4_Witness ==
    /\ Count("repair") >= 2
    /\ trace[Len(trace)].op = "repair"
    /\ trace[Len(trace)].err = LongErr
    /\ trace[Len(trace)].arg \in RepairedSqls

\* C5 (as claimed): once the budget is exhausted, last_sql is the query text of
\* the final execution attempt and the message carries that attempt's error.
C5_LastAttemptReported ==
    (Exhausted /\ Failed # {}) =>
        /\ response.last_sql = trace[Last(Failed)].arg
        /\ response.message.last_error = Take(trace[Last(Failed)].err, ErrTruncLen)

\* C6: a clarification_needed response means that no store execution, no
\* query generation and no repair was made for the request.
C6_ClarificationWithoutWork ==
    response.status = "clarification_needed" =>
        /\ Count("store") = 0
        /\ Count("skip") = 0
        /\ Count("generate") = 0
        /\ Count("repair") = 0

\* the validator's short-circuit fired
C6_Witness ==
    /\ response.status = "clarification_needed"
    /\ Count("validate") = 1
    /\ NeedsClarification(validation)

\* C7: when the generator returns an empty query text the response is an
\* error, and neither an execution nor a repair is attempted.
C7_EmptyGenerationIsTerminal ==
    \A i \in Indices("generate") :
        trace[i].out = "" =>
            /\ i = Len(trace)
            /\ pc = "done"
            /\ response.status = "error"
            /\ Count("store") + Count("skip") + Count("repair") = 0

\* the completion service answered the generator with an unparsable text
C7_Witness ==
    /\ pc = "done"
    /\ Count("generate") = 1
    /\ sql = ""
    /\ explanation = "JSON Parsing Error"
    /\ response.status = "error"

\* C8 (as claimed): when the budget is exhausted and the validator produced no
\* suggestions, the envelope carries exactly the 3 default hints.
C8_DefaultHintsWhenNone ==
    (Exhausted /\ retry_limit > 0 /\ Cardinality(Failed) = retry_limit
       /\ Get(validation, "suggestions", <<>>) = <<>>) =>
        /\ response.suggestions = DefaultHints
        /\ Len(response.suggestions) = 3

\* C9 (as claimed): every error response carries a non-empty suggestions list.
C9_ErrorsCarrySuggestions ==
    response.status = "error" => response.suggestions # <<>>

\* C10: after the budget is exhausted the message carries the last failed
\* attempt's error text only, sliced to at most 200 characters; the error
\* texts of earlier attempts appear nowhere in the envelope.
C10_LastErrorOnly ==
    Exhausted =>
        LET shown == response.message.last_error IN
        /\ DOMAIN response = {"status", "message", "last_sql", "suggestions"}
        /\ DOMAIN response.message = {"id", "tries", "last_error"}
        /\ Len(shown) <= ErrTruncLen
        /\ shown = IF Failed = {} THEN <<>> ELSE Take(trace[Last(Failed)].err, ErrTruncLen)
        /\ \A j \in Failed :
              trace[j].err # trace[Last(Failed)].err => ~Contains(shown, trace[j].err)

\* the last attempt raised the long error text after an earlier short one
C10_Witness ==
    /\ Exhausted
    /\ Cardinality(Failed) >= 2
    /\ trace[Last(Failed)].err = LongErr
    /\ \E j \in Failed : trace[j].err = ShortErr
    /\ Len(response.message.last_error) = ErrTruncLen

\* ---------------------------------------------------------------- C11..C20
EnvelopeStatuses == {"success", "clarification_needed", "error"}

\* a request that came through run_chain and was classified DATA_SQL_QUERY
DataQuery == entry = "run_chain" /\ decision.intent = "DATA_SQL_QUERY"

\* C11: every DATA_QUERY request terminates with exactly one response
\* envelope, whose status is success, clarification_needed or error: the
\* response is set when the request ends and never replaced, and every such
\* request reaches its end.
C11_OneEnvelopePerRequest ==
    /\ [](DataQuery => (pc = "done" <=> response # NoResponse))
    /\ [](DataQuery /\ pc = "done" => response.status \in EnvelopeStatuses)
    /\ [][DataQuery /\ response # NoResponse => response' = response \/ pc' = "idle"]_vars
    /\ (DataQuery ~> (pc = "done" /\ response.status \in EnvelopeStatuses))

\* a data query whose exception run_chain turned into the system-error envelope
C11_Witness ==
    /\ DataQuery
    /\ pc = "done"
    /\ response = SystemError
    /\ Count("validate") = 1

\* the request ended with an exception leaving run: a direct caller sees it,
\* run_chain reports it as the system error
ExceptionLeftRun == pc = "done" /\ (response = Escaped \/ response = SystemError)

\* C12 (as claimed): no exception raised by the completion service, the store
\* or the schema context provider escapes run or route_and_execute: the call
\* at which such a collaborator raised is never the request's last step
\* before it ends with an exception.
C12_NoCollaboratorExceptionEscapes ==
    \A i \in DOMAIN trace :
        (/\ trace[i].op \in {"schema", "store", "insight"}
         /\ (~trace[i].ok)
         /\ (trace[i].op = "insight" => trace[i].out = "raise"))
          => ~(ExceptionLeftRun /\ i = Len(trace))

\* C13 (as claimed): when the validator's completion call raises, returns the
\* sentinel or returns something that is no JSON object, validate_query
\* returns exactly the fail-open default and the pipeline goes on to generate.
C13_FailOpenDefault ==
    \A i \in Indices("validate") :
        (~trace[i].ok) =>
            /\ validation = DefaultValidation(user_input)
            /\ (i = Len(trace) => pc = "generate")

\* C14 (as claimed): run returns clarification_needed exactly when the
\* validation result has is_clear = false, a confidence below 0.5 and a
\* non-empty clarifying_questions list; any other validation result, malformed
\* ones included, lets the pipeline go on to generation.
C14_ClarificationExactlyWhen ==
    (trace # <<>> /\ trace[Len(trace)].op = "validate") =>
        IF /\ validation.is_clear = Some(FALSE)
           /\ validation.confidence # Absent
           /\ validation.confidence[1].isnum
           /\ validation.confidence[1].v < 50
           /\ validation.clarifying_questions # Absent
           /\ validation.clarifying_questions[1] # <<>>
        THEN pc = "done" /\ response.status = "clarification_needed"
        ELSE pc = "generate" /\ response = NoResponse

\* C15: a decision with confidence below 0.5 ends in a clarification_needed
\* response whatever its category, with no collaborator called after the
\* classifier; from 0.5 on the category alone picks the branch.
C15_ConfidenceGateFirst ==
    (entry = "run_chain" /\ decision # NoDecision) =>
        IF decision.confidence < 50
        THEN /\ pc = "done"
             /\ response.status = "clarification_needed"
             /\ Len(trace) = 1
             /\ trace[1].op = "classify"
        ELSE IF decision.intent = "DATA_SQL_QUERY"
        THEN /\ Count("delegate") = 0
             /\ pc # "delegate"
             /\ (pc = "validate" \/ Count("validate") = 1)
        ELSE /\ Count("validate") + Count("generate") + Count("store") + Count("repair") = 0
             /\ (pc = "delegate" \/ Count("delegate") = 1)

\* a low-confidence decision that is no data query was stopped by the gate
C15_Witness ==
    /\ entry = "run_chain"
    /\ decision.intent = "SEMANTIC_SEARCH"
    /\ decision.confidence = 30
    /\ response.status = "clarification_needed"

\* C16 (as claimed): every clarification_needed response carries message,
\* interpreted_as, issues, clarifying_questions and suggestions.
C16_ClarificationFields ==
    response.status = "clarification_needed" =>
        {"message", "interpreted_as", "issues", "clarifying_questions", "suggestions"}
            \subseteq DOMAIN response

\* C17: whenever the classifier's completion call does not yield a valid
\* decision object (it raises, returns the sentinel, a non-text, a text
\* without or with unparsable JSON, or an object IntentResponse rejects),
\* identify_intent returns the decision of the keyword heuristic on the raw
\* request text.
C17_FallbackOnAnyFailure ==
    \A i \in Indices("classify") :
        (~trace[i].ok) =>
            /\ decision = _keyword_fallback(user_query)
            /\ decision.intent \in IntentTypes
            /\ decision.confidence \in {70, 75, 80}
            /\ decision.reasoning # "llm"

\* the heuristic routed the request with the data keyword to semantic search
C17_Witness ==
    /\ Count("classify") = 1
    /\ ~trace[1].ok
    /\ user_query = "explain the variance policy"
    /\ decision.intent = "SEMANTIC_SEARCH"
    /\ decision.confidence = 70
    /\ pc = "delegate"

\* C18: the keyword fallback returns DATA_SQL_QUERY with confidence 0.75 and
\* the input text as refined_query iff data-score >= 2 or (data-score >= 1,
\* explanation-score = 0 and more than 3 words); otherwise SEMANTIC_SEARCH
\* with 0.70 iff explanation-score >= 1; otherwise GENERAL_CHAT with 0.80;
\* refined_query is set in the DATA_SQL_QUERY case only.
C18_FallbackTable ==
    fn_output # NoCall =>
        LET d == fn_output.result
            data == fn_input.sql_score >= 2
                      \/ (fn_input.sql_score >= 1 /\ fn_input.rag_score = 0 /\ fn_input.words > 3)
        IN /\ d.intent \in IntentTypes
           /\ (d.intent = "DATA_SQL_QUERY" <=> data)
           /\ (d.intent = "SEMANTIC_SEARCH" <=> (~data /\ fn_input.rag_score >= 1))
           /\ (d.intent = "GENERAL_CHAT" <=> (~data /\ fn_input.rag_score = 0))
           /\ d.confidence = CASE d.intent = "DATA_SQL_QUERY" -> 75
                               [] d.intent = "SEMANTIC_SEARCH" -> 70
                               [] OTHER -> 80
           /\ d.refined_query = IF d.intent = "DATA_SQL_QUERY" THEN Some(fn_input.text) ELSE Absent

\* one data keyword, no explanation keyword, four words: a data query
C18_Witness ==
    /\ fn_output # NoCall
    /\ fn_input.sql_score = 1
    /\ fn_input.rag_score = 0
    /\ fn_input.words = 4
    /\ fn_output.result.intent = "DATA_SQL_QUERY"
    /\ fn_output.result.refined_query = Some(fn_input.text)

\* C19 (as claimed): when the insight completion call raises or returns the
\* sentinel after a successful execution, the response is still a success
\* whose explanation is the generator's explanation, with nothing executed or
\* repaired afterwards.
C19_InsightFallsBack ==
    \A i \in Indices("insight") :
        trace[i].out \in {"raise", "sentinel"} =>
            /\ analysis = explanation
            /\ \A j \in DOMAIN trace : j > i => trace[j].op = "followups"
            /\ (pc = "done" => response.status = "success" /\ response.explanation = explanation)

\* C20: a success envelope holds at most 3 follow-up suggestions; when the
\* follow-up call fails or its reply holds no parsable JSON list the list is
\* empty, the status is still success, and the follow-up call is the last
\* call of the request.
C20_FollowupsBounded ==
    response.status = "success" =>
        /\ Len(response.followup_suggestions) <= 3
        /\ trace[Len(trace)].op = "followups"
        /\ Count("followups") = 1
        /\ (~trace[Len(trace)].ok => response.followup_suggestions = <<>>)

\* the follow-up call failed after the store had answered
C20_Witness ==
    /\ response.status = "success"
    /\ Count("store") = 2
    /\ ~trace[Len(trace)].ok
    /\ response.followup_suggestions = <<>>
    /\ response.results # Absent

\* the stage a call belongs to, in the order the pipeline visits the stages
StageRank(op) ==
    CASE op = "classify" -> 1
      [] op \in {"validate", "delegate"} -> 2
      [] op = "schema" -> 3
      [] op = "generate" -> 4
      [] op \in {"store", "skip", "repair"} -> 5
      [] op = "insight" -> 6
      [] OTHER -> 7

\* the execution attempts of the request: execute_query calls
Attempts == Indices("store") \cup Indices("skip")

\* the stages never run out of order, and only the loop's stage repeats
C21_StagesInOrder ==
    \A i \in DOMAIN trace : \A j \in DOMAIN trace :
        i < j => /\ StageRank(trace[i].op) <= StageRank(trace[j].op)
                 /\ (StageRank(trace[i].op) = StageRank(trace[j].op)
                       => StageRank(trace[i].op) = 5)

\* validator and generator are called for DATA_SQL_QUERY decisions only
C21_DataQueryOnly ==
    (entry = "run_chain" /\ Count("validate") + Count("schema") + Count("generate") > 0)
        => decision.intent = "DATA_SQL_QUERY"

\* attempt N+1 starts right after the repair of attempt N's error, and the
\* first attempt right after the generation
C21_AttemptsSequential ==
    \A i \in Attempts :
        /\ i > 1
        /\ \/ trace[i - 1].op = "generate" /\ trace[i - 1].out = trace[i].arg
           \/ /\ trace[i - 1].op = "repair"
              /\ i > 2
              /\ trace[i - 2].op = "store"
              /\ ~trace[i - 2].ok
              /\ trace[i - 1].err = trace[i - 2].err
              /\ trace[i - 1].out = trace[i].arg

\* the insight call directly follows an execution the store answered
C21_AnalysisAfterSuccess ==
    \A i \in Indices("insight") :
        i > 1 /\ trace[i - 1].op = "store" /\ trace[i - 1].ok

\* C21 (as claimed): within one request the stages run strictly in the order
\* classifier, validator, generator, alternating execution and repair,
\* insight, follow-up; validator and generator are called only for
\* DATA_SQL_QUERY decisions; the post-execution analysis starts only after an
\* execution has succeeded; and an execution attempt starts only after the
\* previous attempt's error is known and repaired.
C21_StageOrder ==
    /\ C21_StagesInOrder
    /\ C21_DataQueryOnly
    /\ C21_AttemptsSequential
    /\ C21_AnalysisAfterSuccess

\* C24 (as claimed): every confidence the pipeline branches on, in the
\* classifier's decision or in the validation result, lies in [0,1]; a reply
\* of the completion service with a confidence outside [0,1] is never
\* accepted with that value.
C24_ConfidenceInRange ==
    /\ decision # NoDecision => decision.confidence \in 0..100
    /\ (validation.confidence # Absent /\ validation.confidence[1].isnum)
          => validation.confidence[1].v \in 0..100

\* C25 (as claimed): in every success response chart_type is one of the ten
\* chart types, whatever chart hint the completion service returned or omitted.
C25_ChartTypeInSet ==
    response.status = "success" => response.chart_type \in ChartTypes

\* C26: when the store raises, execute_query makes its rollback attempt before
\* the error reaches the retry loop, and whether the rollback succeeds, fails
\* or finds no session, what reaches the loop is the store's original error,
\* whose literal text the repair step receives.
C26_OriginalErrorSurvivesRollback ==
    (fn_output # NoCall /\ fn_input.sql # "" /\ ~fn_input.reply.ok) =>
        /\ fn_output.out.raised
        /\ fn_output.out.store_called
        /\ fn_output.out.err = fn_input.reply.err
        /\ fn_output.out.rollback \in {"no session", "rolled back", "failed"}
        /\ (fn_output.out.rollback = "rolled back" <=> fn_input.session = "live")
        /\ (fn_output.stage = "caught" => fn_output.repair_error = fn_input.reply.err)

\* the rollback raised, and the repair was still handed the store's long error
C26_Witness ==
    /\ fn_output # NoCall
    /\ fn_input.session = "rollback fails"
    /\ fn_input.reply.err = LongErr
    /\ fn_output.stage = "caught"
    /\ fn_output.out.rollback = "failed"
    /\ fn_output.repair_error = LongErr

\* the calls that are handed a request text
TextStages == {"validate", "schema", "generate", "insight", "followups"}

\* what route_and_execute passes to run, read off the decision
RefinedOrRaw ==
    IF decision.refined_query # Absent /\ decision.refined_query[1] # ""
    THEN decision.refined_query[1] ELSE user_query

WarningRank(w) ==
    CASE w = "null values" -> 1
      [] w = "very few rows" -> 2
      [] w = "zero values" -> 3
      [] w = "negative values" -> 4
      [] OTHER -> 0

LlmCallWithinLimits ==
    fn_output # NoCall =>
        LET h == fn_output.history
            m == fn_input.max_retries
        IN /\ fn_output.state \in {"looping", "returned"}
           /\ Len(h) <= m + 1
           /\ fn_output.retries <= m
           /\ \A i \in 1..(Len(h) - 1) :
                  h[i].kind = "api_error" /\ h[i].status = 429
           /\ (fn_output.state = "looping" => Len(h) = fn_output.retries)
           /\ (fn_output.state = "returned" =>
                  /\ Len(h) >= 1
                  /\ fn_output.result = IF h[Len(h)].kind = "content"
                                        THEN h[Len(h)].content ELSE "{}")

\* C29: llm_call always returns and never lets a failure of model.invoke
\* escape: it invokes the model again only after an API error with HTTP
\* status 429, at most max_retries times (at most max_retries + 1 invocations
\* in all), and on any other failure of the invocation, or on a 429 once the
\* retries are used up, it returns "{}".
C29_BoundedRetriesThenSentinel ==
    /\ []LlmCallWithinLimits
    /\ <>(fn_output # NoCall /\ fn_output.state = "returned")

\* the default call: three retries after 429, the fourth 429 gives "{}"
C29_Witness ==
    /\ fn_output # NoCall
    /\ fn_input.max_retries = 3
    /\ fn_output.state = "returned"
    /\ Len(fn_output.history) = 4
    /\ fn_output.history[4].status = 429
    /\ fn_output.result = "{}"

\* a step of the loop or of the analysis keeps what the generation returned
GenerationKept ==
    pc \in {"execute", "repair", "insight", "followups"} =>
        (explanation' = explanation /\ chart_type' = chart_type
           /\ validation' = validation /\ user_input' = user_input)

\* a repair step keeps the results and the error it was handed
RepairFrame ==
    pc = "repair" => (results' = results /\ last_error' = last_error)

\* C30: repairs change only the current query text: from the generation on,
\* through any number of executions and repairs, the explanation and the
\* chart type stay those of the initial generation (whatever explanation and
\* chart hint a repair reply carries); that explanation is what the insight
\* step falls back to, and that chart type is the one of the success envelope.
C30_RepairsChangeOnlyQuery ==
    /\ [][GenerationKept]_vars
    /\ [][RepairFrame]_vars
    /\ [](response.status = "success" => response.chart_type = chart_type)
    /\ [](\A i \in Indices("insight") : trace[i].out = "raise" => analysis = explanation)

\* a success after a repair, with the generation's chart type and explanation
C30_Witness ==
    /\ response.status = "success"
    /\ Count("repair") = 1
    /\ response.sql = "SELECT b"
    /\ response.chart_type = "pie"
    /\ explanation = "sums spend"
    /\ response.explanation = "sums spend"

\* the call run alone: its steps applied to its own locals, one after the
\* other, with the answers the call received
RECURSIVE Replay(_, _, _)
Replay(l, rs, i) ==
    IF i > Len(rs) THEN l ELSE Replay(FlowStep(l, rs[i]), rs, i + 1)

RunAlone(l) == Replay(StartLocal(l.call_text, l.call_limit), l.replies, 1)

====
